---- MODULE Spec2Model ----
(***************************************************************************)
(* Model of src/src/extension.ts (vscode-fish-ide): the process runner     *)
(* runInWorkspace, the error-output parser parseFishErrors, the lint       *)
(* pipeline of startLinting and the format pipeline of                     *)
(* formattingProviders, as state machines driven by the host's events and  *)
(* by the completion callbacks of the child processes.                     *)
(***************************************************************************)
EXTENDS Integers, Sequences, FiniteSets, TLC

VARIABLES
    phase,      \* activation: "probing" | "active" | "failed" | "deactivated"
    host,       \* what activate registered with the host: the diagnostic
                \* collection ("none" | "created" | "disposed") and the
                \* formatting providers ("document", "range")
    docs,       \* the host's documents: id -> [open, dirty, languageId, scheme]
    subs,       \* the rx subscriptions of startLinting: [linting, closed]
    store,      \* the diagnostic collection: id -> Absent or [diags |-> <<...>>]
    lintReqs,   \* checker processes, in the order started
    fmtReqs,    \* format requests, in the order issued
    messages,   \* number of vscode.window.showErrorMessage calls so far
    last,       \* the handler that ran last (event or callback, with its input)
    calls       \* the host API calls the last handler made, in order

vars == <<phase, host, docs, subs, store, lintReqs, fmtReqs, messages, last, calls>>

----------------------------------------------------------------------------
(* Bounds of the model *)

\* checker processes started in one run
MaxLint == 2
\* format requests issued in one run
MaxFormat == 1
\* largest line and largest character of a range the host asks to format
MaxLine == 2
MaxChar == 3
MaxOutputLines == 2

----------------------------------------------------------------------------
(* JavaScript values of the fields the code probes on an Error object *)

JsUndefined == [type |-> "undefined", num |-> 0, str |-> ""]
JsNull == [type |-> "null", num |-> 0, str |-> ""]
JsNumber(n) == [type |-> "number", num |-> n, str |-> ""]
JsString(s) == [type |-> "string", num |-> 0, str |-> s]

\* x === 0 in JavaScript
JsIsZero(x) == x.type = "number" /\ x.num = 0

\* x > 0 in JavaScript: null, undefined and a non-numeric string are not > 0
JsGreaterZero(x) == x.type = "number" /\ x.num > 0

\* The (error, stdout, stderr) shapes child_process.execFile hands its callback:
\* no error on exit 0; code = the exit status on a clean non-zero exit;
\* code = null when a signal ended the child; errno/code = "ENOENT" (errno a
\* string or, in later node versions, a number) when the spawn failed.
NoError == [isError |-> FALSE, errno |-> JsUndefined, code |-> JsUndefined]
ExitError(n) == [isError |-> TRUE, errno |-> JsUndefined, code |-> JsNumber(n)]
SignalError == [isError |-> TRUE, errno |-> JsUndefined, code |-> JsNull]
SpawnError == [isError |-> TRUE, errno |-> JsString("ENOENT"), code |-> JsString("ENOENT")]
SpawnErrorNumeric == [isError |-> TRUE, errno |-> JsNumber(0 - 2), code |-> JsString("ENOENT")]

CleanExitErrors == {ExitError(1), ExitError(2)}
InfraErrors == {SignalError, SpawnError, SpawnErrorNumeric}
ExecErrors == {NoError} \cup CleanExitErrors \cup InfraErrors

isSystemError(error) ==
    error.errno.type # "undefined" /\ error.errno.type = "string"

\* isProcessError without the test that the code is positive
isProcessErrorAnyCode(error) ==
    ~isSystemError(error) /\ error.code.type # "undefined"

isProcessError(error) ==
    /\ ~isSystemError(error)
    /\ error.code.type # "undefined"
    /\ JsGreaterZero(error.code)

----------------------------------------------------------------------------
(* rx observers: a Subscriber ignores every notification after error or    *)
(* complete                                                                *)

Stopped(notes) ==
    \E i \in 1..Len(notes) : notes[i].kind \in {"error", "complete"}

Notify(notes, n) == IF Stopped(notes) THEN notes ELSE Append(notes, n)

\* The execFile callback of runInWorkspace: the notifications it sends to the
\* observer for the callback arguments cb = [error, stdout, stderr].
\* The callback if every error, a clean non-zero exit too, went to
\* observer.error
runInWorkspaceErrorFirst(cb) ==
    IF cb.error.isError
    THEN Notify(<<>>, [kind |-> "error"])
    ELSE Notify(Notify(<<>>, [kind |-> "next", stdout |-> cb.stdout,
                              stderr |-> cb.stderr, exitCode |-> JsNumber(0)]),
                [kind |-> "complete"])

runInWorkspace(cb) ==
    IF cb.error.isError /\ ~isProcessError(cb.error)
    THEN Notify(<<>>, [kind |-> "error"])
    ELSE LET exitCode == IF cb.error.isError THEN cb.error.code ELSE JsNumber(0)
         IN  Notify(Notify(<<>>, [kind |-> "next", stdout |-> cb.stdout,
                                  stderr |-> cb.stderr, exitCode |-> exitCode]),
                    [kind |-> "complete"])

Errored(notes) == \E i \in 1..Len(notes) : notes[i].kind = "error"
Results(notes) == SelectSeq(notes, LAMBDA n : n.kind = "next")

----------------------------------------------------------------------------
(* Paths and URIs.  A path is a sequence of characters; the model uses one  *)
(* token per path component.                                                *)

\* os.homedir()
homedir == <<"/", "h">>

\* path.replace(/^~($|\/|\\)/, `${homedir()}$1`) then Uri.file
expandUser(path) ==
    [scheme |-> "file",
     path |-> IF /\ Len(path) >= 1
                 /\ path[1] = "~"
                 /\ (Len(path) = 1 \/ path[2] \in {"/", "\\"})
              THEN homedir \o Tail(path)
              ELSE path]

\* uri.toString without a call: the property read yields the method itself,
\* which every Uri inherits from Uri.prototype
ToStringProperty(uri) == "Uri.prototype.toString"

----------------------------------------------------------------------------
(* Documents of the host *)

DocIds == {1, 2}

\* document.fileName
FileName(d) == IF d = 1 THEN <<"/", "h", "/", "a">> ELSE <<"/", "t", "/", "b">>

\* the text of the document, line by line
Lines(d) == IF d = 1 THEN <<<<"x", "y">>, <<>>>> ELSE <<<<"z">>>>

\* document.uri
DocUri(d) == [scheme |-> docs[d].scheme, path |-> FileName(d)]

\* vscode.languages.match({language: "fish", scheme: "file"}, document):
\* a positive score exactly when both the language and the scheme match
LanguagesMatch(document) ==
    IF document.languageId = "fish" /\ document.scheme = "file" THEN 10 ELSE 0

\* isSavedFishDocument without the isDirty test
isSavedFishDocumentIgnoringDirty(document) == 0 < LanguagesMatch(document)

isSavedFishDocument(document) ==
    ~document.dirty /\ 0 < LanguagesMatch(document)

\* Number.MAX_VALUE, larger than every line and column of the model
MAX_VALUE == 1000

\* new Range(sl, sc, el, ec): new Position throws on a negative line or
\* character; the constructor orders start and end
IllegalArgument == [ok |-> FALSE, sl |-> 0, sc |-> 0, el |-> 0, ec |-> 0]

NewRange(sl, sc, el, ec) ==
    IF sl < 0 \/ sc < 0 \/ el < 0 \/ ec < 0
    THEN IllegalArgument
    ELSE IF el < sl \/ (el = sl /\ ec < sc)
         THEN [ok |-> TRUE, sl |-> el, sc |-> ec, el |-> sl, ec |-> sc]
         ELSE [ok |-> TRUE, sl |-> sl, sc |-> sc, el |-> el, ec |-> ec]

\* document.validatePosition
validatePosition(d, line, char) ==
    LET n == Len(Lines(d)) IN
    IF line < 0 THEN <<0, 0>>
    ELSE IF line >= n THEN <<n - 1, Len(Lines(d)[n])>>
    ELSE <<line, IF char < 0 THEN 0
                 ELSE IF char > Len(Lines(d)[line + 1])
                      THEN Len(Lines(d)[line + 1]) ELSE char>>

\* document.validateRange
validateRange(d, range) ==
    LET s == validatePosition(d, range.sl, range.sc)
        e == validatePosition(d, range.el, range.ec)
    IN  [ok |-> TRUE, sl |-> s[1], sc |-> s[2], el |-> e[1], ec |-> e[2]]

----------------------------------------------------------------------------
(* The error-output parser.  An output is a sequence of lines, a line a     *)
(* sequence of tokens: path components, digits, message words and the two   *)
(* literals of the pattern, " (line " and "): ".                            *)

LP == " (line "
RP == "): "
Digits == {"0", "1", "2", "3", "4", "5", "6", "7", "8", "9"}

DigitValue(c) ==
    CASE c = "0" -> 0 [] c = "1" -> 1 [] c = "2" -> 2 [] c = "3" -> 3
      [] c = "4" -> 4 [] c = "5" -> 5 [] c = "6" -> 6 [] c = "7" -> 7
      [] c = "8" -> 8 [] c = "9" -> 9

\* Number.parseInt on a run of decimal digits
RECURSIVE ParseInt(_)
ParseInt(ds) ==
    IF ds = <<>> THEN 0
    ELSE 10 * ParseInt(SubSeq(ds, 1, Len(ds) - 1)) + DigitValue(ds[Len(ds)])

\* The places i of " (line " at which /^(.+) \(line (\d+)\): (.+)$/ can
\* match the line: a non-empty file before it, a run of digits after it up
\* to "): ", and a non-empty message to the end of the line.
MatchSplits(line) ==
    {i \in 2..Len(line) :
        /\ line[i] = LP
        /\ \E k \in (i + 1)..(Len(line) - 2) :
              /\ \A j \in (i + 1)..k : line[j] \in Digits
              /\ line[k + 1] = RP}

\* The match of the pattern on one line: the first group is greedy, so the
\* last possible " (line " splits the line.
MatchLine(line) ==
    LET i == CHOOSE x \in MatchSplits(line) : \A y \in MatchSplits(line) : y <= x
        k == CHOOSE x \in (i + 1)..(Len(line) - 2) :
                 /\ \A j \in (i + 1)..x : line[j] \in Digits
                 /\ line[x + 1] = RP
    IN  [file |-> SubSeq(line, 1, i - 1),
         digits |-> SubSeq(line, i + 1, k),
         message |-> SubSeq(line, k + 2, Len(line))]

\* observeMatches(pattern, text): every match, top to bottom.  First the
\* variant of a pattern that must match where the last match ended: it stops
\* at the first line that does not match.
RECURSIVE observeMatchesUntilMiss(_)
observeMatchesUntilMiss(output) ==
    IF output = <<>> THEN <<>>
    ELSE IF MatchSplits(Head(output)) # {}
         THEN <<MatchLine(Head(output))>> \o observeMatchesUntilMiss(Tail(output))
         ELSE <<>>

RECURSIVE observeMatches(_)
observeMatches(output) ==
    IF output = <<>> THEN <<>>
    ELSE LET rest == observeMatches(Tail(output))
         IN  IF MatchSplits(Head(output)) # {}
             THEN <<MatchLine(Head(output))>> \o rest
             ELSE rest

\* .map(match => ({fileName, lineNumber, message}))
ToRecord(match) ==
    [fileName |-> match.file,
     lineNumber |-> ParseInt(match.digits),
     message |-> match.message]

\* .filter(({fileName}) => expandUser(fileName).toString === document.uri.toString)
FileFilter(d, record) ==
    ToStringProperty(expandUser(record.fileName)) = ToStringProperty(DocUri(d))

\* .map(({message, lineNumber}) => new Diagnostic(validateRange(new Range(...))))
ToDiagnostic(d, record) ==
    LET range == NewRange(record.lineNumber - 1, 0, record.lineNumber - 1, MAX_VALUE)
    IN  IF ~range.ok
        THEN [thrown |-> TRUE, range |-> IllegalArgument,
              message |-> record.message, source |-> "fish"]
        ELSE [thrown |-> FALSE, range |-> validateRange(d, range),
              message |-> record.message, source |-> "fish"]

\* Observable.map over the matches and over the retained records
ToRecords(matches) == [i \in 1..Len(matches) |-> ToRecord(matches[i])]
ToDiagnostics(d, records) ==
    [i \in 1..Len(records) |-> ToDiagnostic(d, records[i])]

\* parseFishErrors(document, output): one array of diagnostics, or an error
\* when a mapping function throws
parseFishErrors(d, output) ==
    LET records == ToRecords(observeMatches(output))
        kept == SelectSeq(records, LAMBDA r : FileFilter(d, r))
        diags == ToDiagnostics(d, kept)
    IN  IF \E i \in 1..Len(diags) : diags[i].thrown
        THEN [error |-> TRUE, diags |-> <<>>]
        ELSE [error |-> FALSE, diags |-> diags]

\* The checker outputs of the model
OwnLine == <<"/", "h", "/", "a", LP, "1", RP, "m">>
TildeLine == <<"~", "/", "a", LP, "3", RP, "n">>
OtherLine == <<"/", "t", "/", "b", LP, "2", RP, "m">>
ZeroLine == <<"/", "h", "/", "a", LP, "0", RP, "m">>
JunkLine == <<"m", "n">>

Stderrs ==
    { <<>>, <<OwnLine>>, <<OtherLine>>, <<JunkLine, TildeLine, OwnLine>>,
      <<OwnLine, ZeroLine>> }

----------------------------------------------------------------------------
(* The lint pipeline of startLinting *)

Absent == [present |-> FALSE, diags |-> <<>>]
Entry(diags) == [present |-> TRUE, diags |-> diags]

Call(op, d) == [op |-> op, doc |-> d]

NoCallback == [error |-> NoError, stdout |-> <<>>, stderr |-> <<>>]

\* A handler run: its kind, its document and request, and for the callback
\* of a child process the callback's arguments and the notifications that
\* runInWorkspace sent to its observer
Handler(kind, d, r, cb) ==
    [kind |-> kind, doc |-> d, req |-> r, cb |-> cb,
     notes |-> IF kind \in {"probe", "lint", "format"} THEN runInWorkspace(cb)
               ELSE <<>>]

\* What execFile can report for the checker: a spawn failure has no output
LintCallbacks ==
    {[error |-> e, stdout |-> <<>>, stderr |-> err] :
        e \in ExecErrors \ {SpawnError, SpawnErrorNumeric}, err \in Stderrs}
    \cup {[error |-> e, stdout |-> <<>>, stderr |-> <<>>] :
        e \in {SpawnError, SpawnErrorNumeric}}

\* lintDocument(document): runInWorkspace, then parseFishErrors on stderr.
\* The observable ends with one array of diagnostics or with an error.
lintDocument(d, cb) ==
    LET notes == runInWorkspace(cb) IN
    IF Errored(notes)
    THEN [error |-> TRUE, diags |-> <<>>]
    ELSE parseFishErrors(d, Results(notes)[1].stderr)

\* .filter(isSavedFishDocument).map(lintDocument ...).mergeAll(): an event
\* for an eligible document starts one checker process at once
StartLint(reqs, d, document) ==
    IF isSavedFishDocument(document)
    THEN Append(reqs, [doc |-> d, state |-> "running"])
    ELSE reqs

\* The calls of the completion of one request: the catch handler shows the
\* error and deletes the entry, the subscriber sets the entry.  First the
\* variant that clears the entry before it sets it.
LintCallsClearFirst(d, cb) ==
    IF lintDocument(d, cb).error
    THEN <<Call("showErrorMessage", d), Call("delete", d)>>
    ELSE <<Call("delete", d), Call("set", d)>>

LintCalls(d, cb) ==
    IF lintDocument(d, cb).error
    THEN <<Call("showErrorMessage", d), Call("delete", d)>>
    ELSE <<Call("set", d)>>

\* The effect of a sequence of host calls on the diagnostic collection.
\* First two variants of set: one adds the diagnostics to those of the entry,
\* one leaves an entry that is present as it is.
RECURSIVE ApplyCallsMerging(_, _, _)
ApplyCallsMerging(st, cs, diags) ==
    IF cs = <<>> THEN st
    ELSE LET c == Head(cs)
             st1 == CASE c.op = "set" ->
                             [st EXCEPT ![c.doc] = Entry(st[c.doc].diags \o diags)]
                      [] c.op = "delete" -> [st EXCEPT ![c.doc] = Absent]
                      [] OTHER -> st
         IN  ApplyCallsMerging(st1, Tail(cs), diags)

RECURSIVE ApplyCallsKeepExisting(_, _, _)
ApplyCallsKeepExisting(st, cs, diags) ==
    IF cs = <<>> THEN st
    ELSE LET c == Head(cs)
             st1 == CASE c.op = "set" /\ ~st[c.doc].present ->
                             [st EXCEPT ![c.doc] = Entry(diags)]
                      [] c.op = "delete" -> [st EXCEPT ![c.doc] = Absent]
                      [] OTHER -> st
         IN  ApplyCallsKeepExisting(st1, Tail(cs), diags)

RECURSIVE ApplyCalls(_, _, _)
ApplyCalls(st, cs, diags) ==
    IF cs = <<>> THEN st
    ELSE LET c == Head(cs)
             st1 == CASE c.op = "set" -> [st EXCEPT ![c.doc] = Entry(diags)]
                      [] c.op = "delete" -> [st EXCEPT ![c.doc] = Absent]
                      [] OTHER -> st
         IN  ApplyCalls(st1, Tail(cs), diags)

CountCalls(cs, op) == Len(SelectSeq(cs, LAMBDA c : c.op = op))

\* Observable.from(vscode.workspace.textDocuments): the open documents
RECURSIVE StartAll(_, _)
StartAll(reqs, d) ==
    IF d \notin DocIds THEN reqs
    ELSE StartAll(IF docs[d].open THEN StartLint(reqs, d, docs[d]) ELSE reqs,
                  d + 1)

Started(before, after) ==
    [i \in 1..(Len(after) - Len(before)) |->
        Call("execFile fish -n", after[Len(before) + i].doc)]

----------------------------------------------------------------------------
(* Activation: the version probe, then startLinting and the providers *)

VersionLine == <<"fish, version ", "2.6.0">>
VersionStdouts == {<<VersionLine>>, <<<<"m">>, VersionLine>>, <<<<"m">>>>, <<>>}

ProbeCallbacks ==
    {[error |-> e, stdout |-> out, stderr |-> <<>>] :
        e \in {NoError, ExitError(1)}, out \in VersionStdouts}
    \cup {[error |-> e, stdout |-> <<>>, stderr |-> <<>>] : e \in InfraErrors}

\* result.stdout.match(/^fish, version (.+)$/m)
VersionMatches(stdout) ==
    \E i \in 1..Len(stdout) :
        Len(stdout[i]) >= 2 /\ stdout[i][1] = "fish, version "

\* getFishVersion(): a version, or an error.  First the variant that accepts
\* whatever the probe printed.
getFishVersionAnyOutput(cb) == [error |-> Errored(runInWorkspace(cb))]

getFishVersion(cb) ==
    LET notes == runInWorkspace(cb) IN
    IF Errored(notes) THEN [error |-> TRUE]
    ELSE [error |-> ~VersionMatches(Results(notes)[1].stdout)]

Init ==
    /\ phase = "probing"
    /\ host = [diagnostics |-> "none", providers |-> {}]
    /\ docs \in [DocIds -> [open : BOOLEAN, dirty : BOOLEAN,
                            languageId : {"fish", "plaintext"},
                            scheme : {"file", "untitled"}]]
    /\ docs[1].languageId = "fish" /\ docs[1].scheme = "file"
    /\ docs[2].languageId = "plaintext" => docs[2].scheme = "file"
    /\ \A d \in DocIds : docs[d].dirty => docs[d].open
    /\ subs = [linting |-> FALSE, closed |-> FALSE]
    /\ store = [d \in DocIds |-> Absent]
    /\ lintReqs = <<>>
    /\ fmtReqs = <<>>
    /\ messages = 0
    /\ last = Handler("activate", 0, 0, NoCallback)
    /\ calls = <<>>

\* activate: the probe fails, nothing is set up
ActivateFail(cb) ==
    /\ phase = "probing"
    /\ getFishVersion(cb).error
    /\ phase' = "failed"
    /\ last' = Handler("probe", 0, 0, cb)
    /\ calls' = <<>>
    /\ UNCHANGED <<host, docs, subs, store, lintReqs, fmtReqs, messages>>

\* activate: the probe succeeds; startLinting subscribes, which lints the
\* documents already open, and the providers are registered
ActivateOk(cb) ==
    /\ phase = "probing"
    /\ ~getFishVersion(cb).error
    /\ phase' = "active"
    /\ host' = [diagnostics |-> "created", providers |-> {"document", "range"}]
    /\ subs' = [linting |-> TRUE, closed |-> TRUE]
    /\ lintReqs' = StartAll(lintReqs, 1)
    /\ Len(lintReqs') <= MaxLint
    /\ last' = Handler("probe", 0, 0, cb)
    /\ calls' = Started(lintReqs, lintReqs')
    /\ UNCHANGED <<docs, store, fmtReqs, messages>>

----------------------------------------------------------------------------
(* Document lifecycle events of the host *)

\* onDidOpenTextDocument / onDidSaveTextDocument reach the linting pipeline
LintEvent(kind, d) ==
    /\ lintReqs' = IF subs.linting THEN StartLint(lintReqs, d, docs'[d])
                   ELSE lintReqs
    /\ Len(lintReqs') <= MaxLint
    /\ last' = Handler(kind, d, 0, NoCallback)
    /\ calls' = Started(lintReqs, lintReqs')
    /\ UNCHANGED <<phase, host, subs, store, fmtReqs, messages>>

DocOpen(d, dirty) ==
    /\ ~docs[d].open
    /\ docs' = [docs EXCEPT ![d].open = TRUE, ![d].dirty = dirty]
    /\ LintEvent("open", d)

DocSave(d) ==
    /\ docs[d].open
    /\ docs' = [docs EXCEPT ![d].dirty = FALSE]
    /\ LintEvent("save", d)

DocEdit(d) ==
    /\ docs[d].open
    /\ ~docs[d].dirty
    /\ docs' = [docs EXCEPT ![d].dirty = TRUE]
    /\ last' = Handler("edit", d, 0, NoCallback)
    /\ calls' = <<>>
    /\ UNCHANGED <<phase, host, subs, store, lintReqs, fmtReqs, messages>>

\* onDidCloseTextDocument: diagnostics.delete(document.uri).  On a disposed
\* collection delete throws; the error leaves the subscriber, which rx
\* unsubscribes, and reaches the host uncaught.
DocClose(d) ==
    /\ docs[d].open
    /\ docs' = [docs EXCEPT ![d].open = FALSE, ![d].dirty = FALSE]
    /\ LET attempted == IF subs.closed THEN <<Call("delete", d)>> ELSE <<>>
           thrown == attempted # <<>> /\ host.diagnostics = "disposed"
       IN  /\ calls' = IF thrown THEN Append(attempted, Call("uncaught", d))
                       ELSE attempted
           /\ store' = IF thrown THEN store ELSE ApplyCalls(store, attempted, <<>>)
           /\ subs' = [subs EXCEPT !.closed = subs.closed /\ ~thrown]
    /\ last' = Handler("close", d, 0, NoCallback)
    /\ UNCHANGED <<phase, host, lintReqs, fmtReqs, messages>>

\* Whether the linting subscription is still subscribed after the completion
\* of one request.  The catch handler sits on the inner observable of the
\* request, so a failed request ends only its own observable; the merged
\* stream ends only when an error leaves the subscriber (thrown: set or
\* delete on a disposed collection).  First the variant with the catch
\* handler on the merged stream, which a failed request would end.
SubscribedAfterLintOuterCatch(subscribed, failed, thrown) ==
    subscribed /\ ~thrown /\ ~failed

SubscribedAfterLint(subscribed, failed, thrown) == subscribed /\ ~thrown

\* The execFile callback of checker process r
LintDone(r, cb) ==
    /\ r \in 1..Len(lintReqs)
    /\ lintReqs[r].state = "running"
    /\ LET d == lintReqs[r].doc
           attempted == IF subs.linting THEN LintCalls(d, cb) ELSE <<>>
           thrown == attempted # <<>> /\ host.diagnostics = "disposed"
       IN  /\ calls' = IF thrown THEN Append(attempted, Call("uncaught", d))
                       ELSE attempted
           /\ store' = IF thrown THEN store
                       ELSE ApplyCalls(store, attempted, lintDocument(d, cb).diags)
           /\ subs' = [subs EXCEPT !.linting =
                         SubscribedAfterLint(subs.linting,
                                             lintDocument(d, cb).error, thrown)]
           /\ messages' = messages + CountCalls(calls', "showErrorMessage")
           /\ last' = Handler("lint", d, r, cb)
    /\ lintReqs' = [lintReqs EXCEPT ![r].state = "done"]
    /\ UNCHANGED <<phase, host, docs, fmtReqs>>

\* [linting, closed].forEach(subscription =>
\*     context.subscriptions.push({ dispose: subscription.unsubscribe })):
\* the host calls dispose() on the pushed object, so unsubscribe runs with
\* that object as this, finds no subscription state on it and tears nothing
\* down: both subscriptions stay as they were.
DisposeSubscriptions(s) == s

\* The host deactivates the extension and disposes every entry of
\* context.subscriptions: the diagnostic collection (which clears it), the
\* two subscription wrappers and the two formatting providers
Deactivate ==
    /\ phase = "active"
    /\ phase' = "deactivated"
    /\ host' = [diagnostics |-> "disposed", providers |-> {}]
    /\ store' = [d \in DocIds |-> Absent]
    /\ subs' = DisposeSubscriptions(subs)
    /\ last' = Handler("deactivate", 0, 0, NoCallback)
    /\ calls' = <<>>
    /\ UNCHANGED <<docs, lintReqs, fmtReqs, messages>>

Next ==
    \/ \E cb \in ProbeCallbacks : ActivateFail(cb)
    \/ \E cb \in ProbeCallbacks : ActivateOk(cb)
    \/ \E d \in DocIds, dirty \in BOOLEAN : DocOpen(d, dirty)
    \/ \E d \in DocIds : DocSave(d)
    \/ \E d \in DocIds : DocEdit(d)
    \/ \E d \in DocIds : DocClose(d)
    \/ \E r \in 1..MaxLint, cb \in LintCallbacks : LintDone(r, cb)

Spec == Init /\ [][Next]_vars

\* Every checker process that was started ends: execFile calls its callback
\* (both documents are fish files; the checker succeeds, finds errors, one of
\* them at line 0, or cannot be spawned)
LiveLintCallbacks ==
    {cb \in LintCallbacks :
        /\ cb.error \in {NoError, ExitError(1), SpawnError}
        /\ cb.stderr \in {<<>>, <<OwnLine, ZeroLine>>}}

LiveInit ==
    Init /\ docs[2].languageId = "fish" /\ docs[2].scheme = "file"

LiveNext ==
    \/ \E cb \in ProbeCallbacks : ActivateFail(cb)
    \/ \E cb \in ProbeCallbacks : ActivateOk(cb)
    \/ \E d \in DocIds, dirty \in BOOLEAN : DocOpen(d, dirty)
    \/ \E d \in DocIds : DocSave(d)
    \/ \E d \in DocIds : DocEdit(d)
    \/ \E d \in DocIds : DocClose(d)
    \/ \E r \in 1..MaxLint, cb \in LiveLintCallbacks : LintDone(r, cb)

LiveSpec ==
    /\ LiveInit
    /\ [][LiveNext]_vars
    /\ \A r \in 1..MaxLint :
          WF_vars(\E cb \in LiveLintCallbacks : LintDone(r, cb))

\* The parser on every output of up to MaxOutputLines lines: the one saved
\* fish document is linted at the initial load, and its checker may write
\* anything
ParseLines ==
    { OwnLine, TildeLine, JunkLine,
      <<"a", LP, "1", "2", RP, "m">>,
      <<"a", LP, "1", RP, "b", LP, "2", RP, "m">>,
      <<"a", LP, "x", RP, "m">>,
      <<"a", LP, RP, "m">>,
      <<LP, "1", RP, "m">>,
      <<"a", LP, "1", RP>> }

ParseOutputs == UNION {[1..k -> ParseLines] : k \in 0..MaxOutputLines}

ParseCallbacks ==
    {[error |-> e, stdout |-> <<>>, stderr |-> err] :
        e \in {NoError, ExitError(1)}, err \in ParseOutputs}

ParseInit ==
    /\ Init
    /\ docs[1] = [open |-> TRUE, dirty |-> FALSE,
                  languageId |-> "fish", scheme |-> "file"]
    /\ docs[2] = [open |-> FALSE, dirty |-> FALSE,
                  languageId |-> "plaintext", scheme |-> "file"]

ParseNext ==
    \/ \E cb \in ProbeCallbacks : ActivateFail(cb)
    \/ \E cb \in ProbeCallbacks : ActivateOk(cb)
    \/ \E r \in 1..MaxLint, cb \in ParseCallbacks : LintDone(r, cb)

ParseSpec == ParseInit /\ [][ParseNext]_vars

\* The same with the deactivation of the extension
LifecycleNext == Next \/ Deactivate

LifecycleSpec == Init /\ [][LifecycleNext]_vars

----------------------------------------------------------------------------
(* The format pipeline: getFormatRangeEdits and formattingProviders *)

\* document.getText(range) for a validated range: the characters from its
\* start to its end, the lines joined by "\n"
RECURSIVE getText(_, _)
getText(d, range) ==
    LET line == Lines(d)[range.sl + 1] IN
    IF range.sl = range.el
    THEN SubSeq(line, range.sc + 1, range.ec)
    ELSE SubSeq(line, range.sc + 1, Len(line)) \o <<"\n">>
         \o getText(d, [range EXCEPT !.sl = range.sl + 1, !.sc = 0])

\* The ranges the host passes to provideDocumentRangeFormattingEdits
HostRanges ==
    {NewRange(sl, sc, el, ec) : sl \in {0, MaxLine}, el \in {0, 1, MaxLine},
                                sc \in {0, 1}, ec \in {0, MaxChar}}

\* What fish_indent writes to its standard output
FormatStdouts == {<<>>, <<"e", "\n">>}

FormatCallbacks ==
    {[error |-> e, stdout |-> out, stderr |-> <<>>] :
        e \in ExecErrors \ {SpawnError, SpawnErrorNumeric}, out \in FormatStdouts}
    \cup {[error |-> e, stdout |-> <<>>, stderr |-> <<>>] :
        e \in {SpawnError, SpawnErrorNumeric}}

\* document.validateRange(range || new Range(0, 0, MAX_VALUE, MAX_VALUE))
\* The range if the requested range were dropped
ActualRangeWholeDocument(d, given, range) ==
    validateRange(d, NewRange(0, 0, MAX_VALUE, MAX_VALUE))

ActualRange(d, given, range) ==
    validateRange(d, IF given THEN range
                     ELSE NewRange(0, 0, MAX_VALUE, MAX_VALUE))

\* if (stdin) { child.stdin.end(stdin); }: the empty string is falsy, so
\* the stream is written and closed only for a non-empty text
FeedStdin(text) ==
    IF text # <<>> THEN [text |-> text, ended |-> TRUE]
    ELSE [text |-> <<>>, ended |-> FALSE]

TextEditReplace(range, newText) == [range |-> range, newText |-> newText]

\* getFormatRangeEdits after the runner: .catch shows the error and rethrows
\* it; .filter(exitCode === 0).map(result => [TextEdit.replace(...)]).
\* The values the observable emits, and whether it ends with an error.
\* Two variants first: without the exit-code filter, and with a catch that
\* swallows the error and goes on with an empty output.
getFormatRangeEditsAnyExit(actualRange, notes) ==
    IF Errored(notes) THEN [error |-> TRUE, values |-> <<>>]
    ELSE [error |-> FALSE,
          values |-> <<<<TextEditReplace(actualRange, Results(notes)[1].stdout)>>>>]

getFormatRangeEditsOnError(actualRange, notes) ==
    IF Errored(notes)
    THEN [error |-> FALSE, values |-> <<<<TextEditReplace(actualRange, <<>>)>>>>]
    ELSE IF JsIsZero(Results(notes)[1].exitCode)
         THEN [error |-> FALSE,
               values |-> <<<<TextEditReplace(actualRange, Results(notes)[1].stdout)>>>>]
         ELSE [error |-> FALSE, values |-> <<>>]

getFormatRangeEdits(actualRange, notes) ==
    IF Errored(notes) THEN [error |-> TRUE, values |-> <<>>]
    ELSE IF JsIsZero(Results(notes)[1].exitCode)
         THEN [error |-> FALSE,
               values |-> <<<<TextEditReplace(actualRange, Results(notes)[1].stdout)>>>>]
         ELSE [error |-> FALSE, values |-> <<>>]

\* The host calls of getFormatRangeEdits' catch handler
FormatCalls(d, notes) ==
    IF Errored(notes) THEN <<Call("showErrorMessage", d)>> ELSE <<>>

\* formattingProviders: .filter(() => !token.isCancellationRequested)
\* .defaultIfEmpty([]).toPromise(): the promise resolves to the last value
\* and rejects on an error (first a variant without the token filter, and
\* one that resolves to no edits when the observable errors)
formattingProvidersResolveOnError(edits, cancelled) ==
    IF edits.error THEN [state |-> "resolved", edits |-> <<>>]
    ELSE LET passed == SelectSeq(edits.values, LAMBDA v : ~cancelled)
         IN  [state |-> "resolved",
              edits |-> IF passed = <<>> THEN <<>> ELSE passed[Len(passed)]]

formattingProvidersIgnoringToken(edits, cancelled) ==
    IF edits.error THEN [state |-> "rejected", edits |-> <<>>]
    ELSE [state |-> "resolved",
          edits |-> IF edits.values = <<>> THEN <<>>
                    ELSE edits.values[Len(edits.values)]]

formattingProviders(edits, cancelled) ==
    IF edits.error THEN [state |-> "rejected", edits |-> <<>>]
    ELSE LET passed == SelectSeq(edits.values, LAMBDA v : ~cancelled)
         IN  [state |-> "resolved",
              edits |-> IF passed = <<>> THEN <<>> ELSE passed[Len(passed)]]

Pending == [state |-> "pending", edits |-> <<>>]

\* The host asks for the edits of a document (given = FALSE) or of a range
\* of it: provideDocumentFormattingEdits, provideDocumentRangeFormattingEdits
ProvideFormattingEdits(d, given, range) ==
    /\ (IF given THEN "range" ELSE "document") \in host.providers
    /\ docs[d].open
    /\ docs[d].languageId = "fish"
    /\ Len(fmtReqs) < MaxFormat
    /\ LET actualRange == ActualRange(d, given, range) IN
       fmtReqs' = Append(fmtReqs,
           [doc |-> d, given |-> given, requested |-> range,
            range |-> actualRange,
            stdin |-> FeedStdin(getText(d, actualRange)),
            cancelled |-> FALSE, state |-> "running", promise |-> Pending])
    /\ last' = Handler("provide", d, Len(fmtReqs'), NoCallback)
    /\ calls' = <<Call("execFile fish_indent", d)>>
    /\ UNCHANGED <<phase, host, docs, subs, store, lintReqs, messages>>

\* The host cancels the request's token; the child process is not touched
Cancel(r) ==
    /\ r \in 1..Len(fmtReqs)
    /\ fmtReqs[r].state = "running"
    /\ ~fmtReqs[r].cancelled
    /\ fmtReqs' = [fmtReqs EXCEPT ![r].cancelled = TRUE]
    /\ last' = Handler("cancel", fmtReqs[r].doc, r, NoCallback)
    /\ calls' = <<>>
    /\ UNCHANGED <<phase, host, docs, subs, store, lintReqs, messages>>

\* The execFile callback of formatter process r.  fish_indent formats what
\* it reads up to the end of its input, so it exits with status 0 only once
\* its standard input was closed.
FormatDone(r, cb) ==
    /\ r \in 1..Len(fmtReqs)
    /\ fmtReqs[r].state = "running"
    /\ cb.error = NoError => fmtReqs[r].stdin.ended
    /\ LET d == fmtReqs[r].doc
           notes == runInWorkspace(cb)
           edits == getFormatRangeEdits(fmtReqs[r].range, notes)
       IN  /\ calls' = FormatCalls(d, notes)
           /\ fmtReqs' = [fmtReqs EXCEPT
                  ![r].state = "done",
                  ![r].promise = formattingProviders(edits, fmtReqs[r].cancelled)]
           /\ messages' = messages + CountCalls(calls', "showErrorMessage")
           /\ last' = Handler("format", d, r, cb)
    /\ UNCHANGED <<phase, host, docs, subs, store, lintReqs>>

\* The documents are open and saved when the formatting requests arrive
FormatInit == Init /\ \A d \in DocIds : docs[d].open /\ ~docs[d].dirty

FormatNext ==
    \/ \E cb \in ProbeCallbacks : ActivateFail(cb)
    \/ \E cb \in ProbeCallbacks : ActivateOk(cb)
    \/ \E d \in DocIds, range \in HostRanges :
           ProvideFormattingEdits(d, TRUE, range)
    \/ \E d \in DocIds : ProvideFormattingEdits(d, FALSE, IllegalArgument)
    \/ \E r \in 1..MaxFormat : Cancel(r)
    \/ \E r \in 1..MaxFormat, cb \in FormatCallbacks : FormatDone(r, cb)

FormatSpec == FormatInit /\ [][FormatNext]_vars

\* Both pipelines side by side: the lint requests of the initial load end
\* while whole-document formatting requests run
PipelineLintCallbacks ==
    {cb \in LintCallbacks : cb.stderr \in {<<>>, <<OwnLine>>}}

PipelineNext ==
    \/ \E cb \in ProbeCallbacks : ActivateFail(cb)
    \/ \E cb \in ProbeCallbacks : ActivateOk(cb)
    \/ \E r \in 1..MaxLint, cb \in PipelineLintCallbacks : LintDone(r, cb)
    \/ \E d \in DocIds : ProvideFormattingEdits(d, FALSE, IllegalArgument)
    \/ \E r \in 1..MaxFormat : Cancel(r)
    \/ \E r \in 1..MaxFormat, cb \in FormatCallbacks : FormatDone(r, cb)

PipelineSpec == FormatInit /\ [][PipelineNext]_vars

----------------------------------------------------------------------------
(* Claims about the lint pipeline and the process runner, checked under Spec *)

\* The same document: URIs equal in scheme and path
SameDocument(u, v) == u.scheme = v.scheme /\ u.path = v.path

\* C1: once a document's close event has been handled, the diagnostic store
\* holds no entry for it until a later open or save event lints it again;
\* a lint in flight at the close leaves no diagnostics behind.
C1_NoDiagnosticsWhileClosed ==
    \A d \in DocIds : ~docs[d].open => store[d].diags = <<>>

\* C2: parseFishErrors emits a diagnostic only for a matched line whose file,
\* after home-directory expansion, denotes the linted document; an output
\* whose matched lines all name other files gives no diagnostic.
C2_OnlyOwnFile ==
    (last.kind = "lint" /\ CountCalls(calls, "set") = 1) =>
        LET records == ToRecords(observeMatches(last.cb.stderr))
            own == SelectSeq(records, LAMBDA r :
                       SameDocument(expandUser(r.fileName), DocUri(last.doc)))
        IN  Len(store[last.doc].diags) = Len(own)

\* C3: when the checker invocation fails with an infrastructure error, the
\* pipeline shows exactly one error message, deletes the document's entry
\* and performs no diagnostics.set for that request.
C3_InfraErrorClears ==
    (last.kind = "lint" /\ last.cb.error \in InfraErrors) =>
        /\ CountCalls(calls, "showErrorMessage") = 1
        /\ CountCalls(calls, "delete") = 1
        /\ CountCalls(calls, "set") = 0
        /\ \A i \in 1..Len(calls) : calls[i].doc = last.doc
        /\ ~store[last.doc].present

C3_Witness ==
    /\ last.kind = "lint"
    /\ last.cb.error = SpawnError
    /\ calls = <<Call("showErrorMessage", last.doc), Call("delete", last.doc)>>
    /\ messages = 1

\* C4: on every trigger (initial load, open, save) a checker process is
\* started only for a document that is not dirty and has language fish and
\* scheme file at the time of the event; no other handler starts one.
C4_OnlyEligibleLinted ==
    \A i \in 1..Len(calls) :
        calls[i].op = "execFile fish -n" =>
            /\ last.kind \in {"probe", "open", "save"}
            /\ ~docs[calls[i].doc].dirty
            /\ docs[calls[i].doc].languageId = "fish"
            /\ docs[calls[i].doc].scheme = "file"

C4_Witness ==
    /\ last.kind = "save"
    /\ calls = <<Call("execFile fish -n", last.doc)>>
    /\ lintReqs[Len(lintReqs)] = [doc |-> last.doc, state |-> "running"]

\* C9: a runInWorkspace invocation ends in exactly one of two ways: one
\* result with stdout, stderr and the exit code (0 or the positive code of a
\* clean exit) followed by completion, or an error and no result.  A clean
\* non-zero exit gives the result; a child that could not be started or that
\* ended abnormally gives the error.
C9_ResultXorError ==
    last.kind \in {"probe", "lint", "format"} =>
        LET e == last.cb.error
            result(code) == <<[kind |-> "next", stdout |-> last.cb.stdout,
                               stderr |-> last.cb.stderr, exitCode |-> code],
                              [kind |-> "complete"]>>
        IN  /\ e = NoError => last.notes = result(JsNumber(0))
            /\ e \in CleanExitErrors =>
                   e.code.num > 0 /\ last.notes = result(JsNumber(e.code.num))
            /\ e \in InfraErrors => last.notes = <<[kind |-> "error"]>>
            /\ Errored(last.notes) # (Results(last.notes) # <<>>)
            /\ Len(Results(last.notes)) <= 1

C9_Witness ==
    /\ last.kind = "lint"
    /\ last.cb.error = ExitError(2)
    /\ Len(last.notes) = 2
    /\ last.notes[1].exitCode = JsNumber(2)

\* C10: a clean non-zero exit of the checker is treated like exit 0: stderr
\* is parsed, the entry is set to the parsed diagnostics, no error message is
\* shown and the entry is not deleted.
C10_NonZeroExitSets ==
    (last.kind = "lint" /\ last.cb.error \in CleanExitErrors) =>
        /\ calls = <<Call("set", last.doc)>>
        /\ store[last.doc].present

----------------------------------------------------------------------------
(* Claims about the format pipeline, checked under FormatSpec *)

\* The request the last handler belongs to, and the range asked for after
\* clamping to the document
LastFormat == fmtReqs[last.req]
ClampedRequest ==
    validateRange(last.doc,
                  IF LastFormat.given THEN LastFormat.requested
                  ELSE NewRange(0, 0, MAX_VALUE, MAX_VALUE))

\* C5: a format request that is not cancelled and whose formatter exits with
\* status 0 resolves to exactly one edit: its range is the clamped requested
\* range, whose text was fed to the formatter's standard input, and its new
\* text is the captured standard output.
C5_SuccessOneEdit ==
    (last.kind = "format" /\ ~LastFormat.cancelled /\ last.cb.error = NoError) =>
        /\ LastFormat.promise =
               [state |-> "resolved",
                edits |-> <<[range |-> ClampedRequest,
                             newText |-> last.cb.stdout]>>]
        /\ LastFormat.stdin.text = getText(last.doc, ClampedRequest)
        /\ LastFormat.stdin.ended

C5_Witness ==
    /\ last.kind = "format"
    /\ ~LastFormat.cancelled
    /\ last.cb.error = NoError
    /\ last.cb.stdout = <<"e", "\n">>
    /\ LastFormat.given
    /\ LastFormat.requested # ClampedRequest
    /\ Len(LastFormat.promise.edits) = 1
    /\ LastFormat.stdin.text = <<"y", "\n">>

\* C6: when the formatter exits with a non-zero status the provider resolves
\* to an empty edit list, whatever its standard output, and no error message
\* is shown.
C6_NonZeroExitNoEdit ==
    (last.kind = "format" /\ last.cb.error \in CleanExitErrors) =>
        /\ LastFormat.promise = [state |-> "resolved", edits |-> <<>>]
        /\ CountCalls(calls, "showErrorMessage") = 0
        /\ calls = <<>>

C6_Witness ==
    /\ last.kind = "format"
    /\ last.cb.error = ExitError(1)
    /\ last.cb.stdout # <<>>
    /\ ~LastFormat.cancelled
    /\ LastFormat.promise = [state |-> "resolved", edits |-> <<>>]

\* C7: when the formatter invocation fails with an infrastructure error, one
\* error message is shown and the request delivers no edit to the host.
C7_InfraErrorNoEdit ==
    (last.kind = "format" /\ last.cb.error \in InfraErrors) =>
        /\ calls = <<Call("showErrorMessage", last.doc)>>
        /\ LastFormat.state = "done"
        /\ LastFormat.promise.state # "pending"
        /\ LastFormat.promise.edits = <<>>

C7_Witness ==
    /\ last.kind = "format"
    /\ last.cb.error = SpawnError
    /\ messages = 1
    /\ LastFormat.promise.edits = <<>>

\* C8: if cancellation was requested by the time the formatter's result
\* arrives, the provider resolves to an empty edit list whatever the exit
\* status and the output; cancelling does not touch the formatter process,
\* which is still running after the cancellation and runs to completion.
C8_CancelledNoEdit ==
    /\ (last.kind = "format" /\ LastFormat.cancelled
            /\ last.cb.error \notin InfraErrors) =>
           LastFormat.promise = [state |-> "resolved", edits |-> <<>>]
    /\ last.kind = "cancel" =>
           /\ LastFormat.cancelled
           /\ LastFormat.state = "running"
           /\ LastFormat.promise = Pending
           /\ calls = <<>>

C8_Witness ==
    /\ last.kind = "format"
    /\ LastFormat.cancelled
    /\ last.cb.error = NoError
    /\ last.cb.stdout # <<>>
    /\ LastFormat.state = "done"
    /\ LastFormat.promise = [state |-> "resolved", edits |-> <<>>]

----------------------------------------------------------------------------
(* Activation *)

\* The probe failed: the checker could not be run, or no line of its standard
\* output reads "fish, version <version>"
ProbeFailed(cb) ==
    \/ cb.error \in InfraErrors
    \/ \A i \in 1..Len(cb.stdout) : cb.stdout[i][1] # "fish, version "

NothingActivated ==
    /\ host.diagnostics = "none"
    /\ host.providers = {}
    /\ ~subs.linting /\ ~subs.closed
    /\ lintReqs = <<>>
    /\ \A d \in DocIds : store[d] = Absent

\* C11: a failed version probe rejects the activation and activates nothing
\* (no diagnostic collection, no subscription, no formatting provider, ever
\* after); a successful probe resolves it with the collection created, both
\* lifecycle subscriptions made and both formatting providers registered.
C11_ActivationAllOrNothing ==
    /\ phase \in {"probing", "failed"} => NothingActivated
    /\ last.kind = "probe" =>
          /\ phase = (IF ProbeFailed(last.cb) THEN "failed" ELSE "active")
          /\ phase = "active" =>
                /\ host.diagnostics = "created"
                /\ host.providers = {"document", "range"}
                /\ subs.linting /\ subs.closed

\* the probe ran and printed something, but no version line
C11_Witness ==
    /\ last.kind = "probe"
    /\ last.cb.error = NoError
    /\ last.cb.stdout # <<>>
    /\ ProbeFailed(last.cb)
    /\ phase = "failed"

----------------------------------------------------------------------------
(* Propagation of infrastructure errors, checked under PipelineSpec *)

\* An error left a handler and reached the host uncaught
Uncaught == CountCalls(calls, "uncaught") > 0

\* C12 as stated: an infrastructure error of the checker or of the formatter
\* becomes one user notification and goes no further: the host gets neither
\* an uncaught error from a lint request nor a rejected promise from a
\* format request.
C12_ErrorNeverReachesHost ==
    /\ (last.kind = "lint" /\ last.cb.error \in InfraErrors) =>
          CountCalls(calls, "showErrorMessage") = 1 /\ ~Uncaught
    /\ (last.kind = "format" /\ last.cb.error \in InfraErrors) =>
          /\ CountCalls(calls, "showErrorMessage") = 1
          /\ fmtReqs[last.req].promise.state # "rejected"

\* C12, amended: an infrastructure error becomes exactly one user
\* notification in either pipeline.  The lint pipeline stops it there: no
\* error reaches the host.  The format pipeline rethrows it after the
\* notification: the provider's promise is rejected and carries no edit.
C12_NotifiedThenLintAbsorbsFormatRejects ==
    /\ (last.kind = "lint" /\ last.cb.error \in InfraErrors) =>
          CountCalls(calls, "showErrorMessage") = 1 /\ ~Uncaught
    /\ (last.kind = "format" /\ last.cb.error \in InfraErrors) =>
          /\ CountCalls(calls, "showErrorMessage") = 1
          /\ ~Uncaught
          /\ fmtReqs[last.req].promise = [state |-> "rejected", edits |-> <<>>]

\* the formatter could not be spawned, after a lint request had failed too
C12_Witness ==
    /\ last.kind = "format"
    /\ last.cb.error \in InfraErrors
    /\ fmtReqs[last.req].promise.state = "rejected"
    /\ messages = 2

----------------------------------------------------------------------------
(* One process and one effect per trigger, checked under LiveSpec *)

\* The checker processes the last handler started for document d
StartedFor(d) ==
    Len(SelectSeq(calls, LAMBDA c : c.op = "execFile fish -n" /\ c.doc = d))

Eligible(d) ==
    /\ ~docs[d].dirty
    /\ docs[d].languageId = "fish"
    /\ docs[d].scheme = "file"

\* The one effect of a finished request of document d
OneEffect(d) ==
    \/ calls = <<Call("set", d)>>
    \/ calls = <<Call("showErrorMessage", d), Call("delete", d)>>

OneProcessPerTrigger ==
    /\ last.kind \in {"open", "save"} /\ subs.linting /\ Eligible(last.doc) =>
          StartedFor(last.doc) = 1 /\ Len(calls) = 1
    /\ last.kind = "probe" /\ phase = "active" =>
          \A d \in DocIds : docs[d].open /\ Eligible(d) => StartedFor(d) = 1

OneEffectPerRequest ==
    last.kind = "lint" =>
        /\ OneEffect(last.doc)
        /\ lintReqs[last.req] = [doc |-> last.doc, state |-> "done"]

\* C13: each eligible trigger (initial load, open or save once the pipeline
\* is subscribed) starts exactly one checker process; the end of that process has exactly one effect, one set
\* or one message with one delete, and starts no process; a finished request
\* never runs again; and every started request eventually has its effect.
C13_OneProcessOneEffect ==
    /\ [](OneProcessPerTrigger /\ OneEffectPerRequest)
    /\ [][\A r \in 1..Len(lintReqs) :
             lintReqs[r].state = "done" => lintReqs'[r] = lintReqs[r]]_vars
    /\ \A r \in 1..MaxLint :
          (r <= Len(lintReqs) /\ lintReqs[r].state = "running")
              ~> (last.kind = "lint" /\ last.req = r /\ OneEffect(last.doc))

\* a save started the second request, and the first has had its effect
C13_Witness ==
    /\ last.kind = "save"
    /\ StartedFor(last.doc) = 1
    /\ Len(lintReqs) = 2
    /\ lintReqs[1].state = "done"
    /\ lintReqs[2] = [doc |-> last.doc, state |-> "running"]

----------------------------------------------------------------------------
(* The store under repeated and overlapping lint runs, checked under Spec *)

\* The complete diagnostic list of the lint run whose callback is handler h
CompleteList(h) == parseFishErrors(h.doc, h.cb.stderr).diags

\* C14: the store's entry of a document is absent or the complete diagnostic
\* list of one single lint run of that document: whenever an entry changes
\* it becomes absent or, whole, the list of the run that just ended, whatever
\* the entry held before.
C14_WholeEntryReplacement ==
    /\ [](\A d \in DocIds : ~store[d].present => store[d] = Absent)
    /\ []((last.kind = "lint" /\ calls = <<Call("set", last.doc)>>) =>
             store[last.doc] = Entry(CompleteList(last)))
    /\ [][\A d \in DocIds :
             (store'[d] # store[d] /\ store'[d] # Absent) =>
                 /\ last'.kind = "lint" /\ last'.doc = d
                 /\ store'[d] = Entry(CompleteList(last'))]_vars

\* a second run of the document replaced the list of the first by its own
C14_Witness ==
    /\ last.kind = "lint"
    /\ \E r \in 1..Len(lintReqs) :
          r # last.req /\ lintReqs[r] = [doc |-> last.doc, state |-> "done"]
    /\ last.cb.stderr = <<OwnLine>>
    /\ store[last.doc] = Entry(CompleteList(last))
    /\ Len(store[last.doc].diags) = 1

\* C15: overlapping lint requests of one document are neither serialized nor
\* cancelled; whenever a request ends after another request of the same
\* document has ended, in whatever order they were issued, the store holds
\* the outcome of the one that ended last.
C15_LastCompletionWins ==
    (/\ last.kind = "lint"
     /\ \E r \in 1..Len(lintReqs) :
           r # last.req /\ lintReqs[r] = [doc |-> last.doc, state |-> "done"])
    => store[last.doc] = (IF lintDocument(last.doc, last.cb).error THEN Absent
                          ELSE Entry(lintDocument(last.doc, last.cb).diags))

\* the store shows the result of r1 although r2, issued later for the same
\* document, ended before it
C15_Witness ==
    /\ Len(lintReqs) = 2
    /\ last.kind = "lint" /\ last.req = 1
    /\ lintReqs[2] = [doc |-> last.doc, state |-> "done"]
    /\ store[last.doc].present
    /\ store[last.doc].diags # <<>>

----------------------------------------------------------------------------
(* The diagnostics of the parsed records, checked under Spec *)

\* Column 0 to the end of 0-based line n - 1, clamped to the document
ExpectedRange(d, n) ==
    validateRange(d, [ok |-> TRUE, sl |-> n - 1, sc |-> 0,
                      el |-> n - 1, ec |-> MAX_VALUE])

\* The records of the last checker output that the file filter retains
RetainedRecords ==
    SelectSeq(ToRecords(observeMatches(last.cb.stderr)),
              LAMBDA r : FileFilter(last.doc, r))

DiagnosticOf(d, record) ==
    [thrown |-> FALSE, range |-> ExpectedRange(d, record.lineNumber),
     message |-> record.message, source |-> "fish"]

\* C16: when the checker has delivered its output, the pipeline yields one
\* diagnostic per retained record, whatever its line number N >= 0: from
\* column 0 to the end of 0-based line N - 1, clamped to the document, with
\* the source "fish" and the record's message.
C16_OneDiagnosticPerRecord ==
    (last.kind = "lint" /\ subs.linting /\ ~Errored(last.notes)) =>
        /\ calls = <<Call("set", last.doc)>>
        /\ Len(store[last.doc].diags) = Len(RetainedRecords)
        /\ \A i \in 1..Len(RetainedRecords) :
              store[last.doc].diags[i] = DiagnosticOf(last.doc, RetainedRecords[i])

----------------------------------------------------------------------------
(* The parser on arbitrary outputs, checked under ParseSpec *)

\* record is a reading of line by the grammar <file> (line <N>): <message>
ReadsAs(line, record) ==
    \E i \in 2..Len(line) : \E k \in (i + 1)..(Len(line) - 2) :
        /\ line[i] = LP
        /\ \A j \in (i + 1)..k : line[j] \in Digits
        /\ line[k + 1] = RP
        /\ record.fileName = SubSeq(line, 1, i - 1)
        /\ record.lineNumber = ParseInt(SubSeq(line, i + 1, k))
        /\ record.message = SubSeq(line, k + 2, Len(line))

MatchesGrammar(line) ==
    \E i \in 2..Len(line) : \E k \in (i + 1)..(Len(line) - 2) :
        /\ line[i] = LP
        /\ \A j \in (i + 1)..k : line[j] \in Digits
        /\ line[k + 1] = RP

\* C17: for every output the parser yields exactly one record per line that
\* matches the grammar, a reading of that line, and none for any other line,
\* in the order of the lines; the records of an output are those of its
\* matching lines alone, so lines that do not match change nothing wherever
\* they stand.
C17_OneRecordPerMatchingLine ==
    last.kind = "lint" =>
        LET output == last.cb.stderr
            records == ToRecords(observeMatches(output))
            matching == SelectSeq(output, MatchesGrammar)
        IN  /\ Len(records) = Len(matching)
            /\ \A i \in 1..Len(matching) : ReadsAs(matching[i], records[i])
            /\ ToRecords(observeMatches(matching)) = records

\* a line that does not match stands before one that does
C17_Witness ==
    /\ last.kind = "lint"
    /\ last.cb.stderr = <<JunkLine, OwnLine>>
    /\ Len(ToRecords(observeMatches(last.cb.stderr))) = 1
    /\ Len(store[last.doc].diags) = 1

----------------------------------------------------------------------------
(* Deactivation, checked under LifecycleSpec *)

\* C18: once the host has disposed every entry of context.subscriptions,
\* the linting and the close subscription are both unsubscribed, and a later
\* open, save or close event starts no checker process and makes no call on
\* the diagnostic collection.
C18_DisposedSubscriptionsQuiet ==
    phase = "deactivated" =>
        /\ ~subs.linting /\ ~subs.closed
        /\ last.kind \in {"open", "save", "close"} => calls = <<>>

----------------------------------------------------------------------------
(* Failed lint requests and the subscription, checked under Spec *)

\* The outcome of the run whose callback is handler h, as a store entry
OutcomeEntry(h) ==
    IF lintDocument(h.doc, h.cb).error THEN Absent
    ELSE Entry(lintDocument(h.doc, h.cb).diags)

\* C19: a failed lint request, whether the checker could not be run or the
\* conversion of its output raised an error, does not end the linting
\* subscription: after any number of failures every eligible open or save
\* event starts a checker process and every result is applied to the store.
C19_FailureKeepsSubscription ==
    (phase = "active" /\ messages > 0) =>
        /\ subs.linting
        /\ (last.kind \in {"open", "save"} /\ Eligible(last.doc)) =>
              calls = <<Call("execFile fish -n", last.doc)>>
        /\ last.kind = "lint" =>
              calls # <<>> /\ store[last.doc] = OutcomeEntry(last)

\* after one failed request, the save of an eligible document starts the
\* second one
C19_Witness ==
    /\ phase = "active"
    /\ messages = 1
    /\ last.kind = "save"
    /\ lintReqs[1].state = "done"
    /\ Len(lintReqs) = 2
    /\ calls = <<Call("execFile fish -n", last.doc)>>

----------------------------------------------------------------------------
(* The formatter's standard input, checked under FormatSpec *)

\* C20: for every format request, whatever the text of its range, the runner
\* writes that text to the formatter's standard input and closes the stream
\* (so that a formatter that exits at the end of its input ends, and the
\* request resolves).
C20_StdinWrittenAndClosed ==
    \A r \in 1..Len(fmtReqs) :
        /\ fmtReqs[r].stdin.text = getText(fmtReqs[r].doc, fmtReqs[r].range)
        /\ fmtReqs[r].stdin.ended

====
